---- MODULE Spec2Model ----
(***************************************************************************)
(* Model of usage/to_pdf.py: discovery of the image files below            *)
(* JM_DOWNLOAD_DIR (natural sort of folders and files, optional            *)
(* JM_ALBUM_IDS filter), aggregation of the images into one PDF, and the   *)
(* publication of the PDF path.                                            *)
(*                                                                         *)
(* Strings are sequences of one-character strings, so that splitting,      *)
(* case folding and comparison are computed and not assumed.               *)
(***************************************************************************)
EXTENDS Integers, Sequences, FiniteSets, TLC

VARIABLES
    download_dir,        \* os.environ.get('JM_DOWNLOAD_DIR'), <<>> when unset
    album_ids,           \* os.environ.get('JM_ALBUM_IDS'), <<>> when unset
    rootEntries,         \* names of the entries of the download directory
    destBefore,          \* the file at the output path before the run
    dest,                \* the file at the output path now
    pc,                  \* position of the run in main()
    errorKind,           \* why the run failed, "" while it has not
    output_pdf_path,     \* main(): output_pdf_path
    subfolders,          \* get_all_image_files_sorted: subfolders
    all_image_files,     \* main(): all_image_files
    i,                   \* convert_all_images_to_single_pdf: entries attempted
    images,              \* convert_all_images_to_single_pdf: images
    success_count,       \* convert_all_images_to_single_pdf: success_count
    skipped,             \* paths whose load error was printed (line 89)
    openHandles,         \* image files opened by Image.open and not closed
    environ_path_to_pdf, \* os.environ['path_to_pdf'], <<>> when unset
    envFileText,         \* content written to the env file, <<>> when none
    result               \* return value of main(), <<>> for None

vars == <<download_dir, album_ids, rootEntries, destBefore, dest, pc,
          errorKind, output_pdf_path, subfolders, all_image_files, i, images,
          success_count, skipped, openHandles, environ_path_to_pdf,
          envFileText, result>>

-----------------------------------------------------------------------------
(* Bounds *)

MaxEntries == 3

-----------------------------------------------------------------------------
(* Characters and strings *)

\* CIRCLED DIGIT ONE (U+2460), one character: str.isdigit() holds of it, but
\* it is no decimal digit, so \d does not match it and int() rejects it.
CircledOne == "(1)"

\* The characters used, in code-point order.
Ascii ==
    <<" ", "*", ",", ".", "/", "0", "1", "2", "3", "4", "5", "6", "7", "8",
      "9", ":", "=", "A", "B", "C", "D", "E", "F", "G", "H", "I", "J", "K", "L", "M",
      "N", "O", "P", "Q", "R", "S", "T", "U", "V", "W", "X", "Y", "Z", "_",
      "a", "b", "c", "d", "e", "f", "g", "h", "i", "j", "k", "l", "m", "n",
      "o", "p", "q", "r", "s", "t", "u", "v", "w", "x", "y", "z",
      CircledOne>>

UpperLetters ==
    <<"A", "B", "C", "D", "E", "F", "G", "H", "I", "J", "K", "L", "M",
      "N", "O", "P", "Q", "R", "S", "T", "U", "V", "W", "X", "Y", "Z">>

LowerLetters ==
    <<"a", "b", "c", "d", "e", "f", "g", "h", "i", "j", "k", "l", "m",
      "n", "o", "p", "q", "r", "s", "t", "u", "v", "w", "x", "y", "z">>

Digits == <<"0", "1", "2", "3", "4", "5", "6", "7", "8", "9">>

IndexOf(c, tbl) == CHOOSE k \in DOMAIN tbl : tbl[k] = c

Range(s) == {s[k] : k \in DOMAIN s}

\* ord(c), as far as the order of the characters goes
Ord == [c \in Range(Ascii) |-> IndexOf(c, Ascii)]

\* The decimal digits: what \d matches and int() accepts
DecimalChars == Range(Digits)

IsDecimalChar(c) == c \in DecimalChars

\* The characters of which str.isdigit() holds
IsDigitChar(c) == c \in DecimalChars \cup {CircledOne}

\* str.isdigit(): non-empty and every character a digit
isdigit(text) == Len(text) > 0 /\ \A k \in DOMAIN text : IsDigitChar(text[k])

\* int(text) raises ValueError: text is no run of decimal digits
int_raises(text) ==
    text = <<>> \/ \E k \in DOMAIN text : ~IsDecimalChar(text[k])

LowerChar ==
    [c \in Range(Ascii) |->
        IF c \in Range(UpperLetters)
        THEN LowerLetters[IndexOf(c, UpperLetters)] ELSE c]

UpperChar ==
    [c \in Range(Ascii) |->
        IF c \in Range(LowerLetters)
        THEN UpperLetters[IndexOf(c, LowerLetters)] ELSE c]

\* str.lower(), str.upper()
lower(s) == [k \in DOMAIN s |-> LowerChar[s[k]]]
upper(s) == [k \in DOMAIN s |-> UpperChar[s[k]]]

\* int(text) of a run of decimal digits
RECURSIVE int(_)
int(text) ==
    IF text = <<>> THEN 0
    ELSE 10 * int(SubSeq(text, 1, Len(text) - 1))
         + (IndexOf(text[Len(text)], Digits) - 1)

\* str.strip(): leading and trailing blanks removed
RECURSIVE lstrip(_)
lstrip(s) == IF s # <<>> /\ Head(s) = " " THEN lstrip(Tail(s)) ELSE s

RECURSIVE rstrip(_)
rstrip(s) ==
    IF s # <<>> /\ s[Len(s)] = " " THEN rstrip(SubSeq(s, 1, Len(s) - 1)) ELSE s

strip(s) == rstrip(lstrip(s))

\* str.split(','): always at least one piece
RECURSIVE SplitComma(_, _)
SplitComma(s, cur) ==
    IF s = <<>> THEN <<cur>>
    ELSE IF Head(s) = "," THEN <<cur>> \o SplitComma(Tail(s), <<>>)
    ELSE SplitComma(Tail(s), Append(cur, Head(s)))

EndsWith(s, suffix) ==
    /\ Len(s) >= Len(suffix)
    /\ SubSeq(s, Len(s) - Len(suffix) + 1, Len(s)) = suffix

\* os.path.join(a, b)
join(a, b) == a \o <<"/">> \o b

RECURSIVE Flatten(_)
Flatten(ss) == IF ss = <<>> THEN <<>> ELSE Head(ss) \o Flatten(Tail(ss))

\* All orders in which the members of a finite set can be enumerated.
RECURSIVE Enumerations(_)
Enumerations(S) ==
    IF S = {} THEN {<<>>}
    ELSE UNION {{<<x>> \o rest : rest \in Enumerations(S \ {x})} : x \in S}

-----------------------------------------------------------------------------
(* natural_sort_key and list.sort(key=...) *)

\* Length of the run of characters of s from position k on for which
\* "matches \d" is d.
RECURSIVE RunLen(_, _, _)
RunLen(s, k, d) ==
    IF k > Len(s) \/ IsDecimalChar(s[k]) # d THEN 0
    ELSE 1 + RunLen(s, k + 1, d)

\* re.split(r'(\d+)', s): texts between digit runs (possibly empty at both
\* ends) alternating with the digit runs themselves.
RECURSIVE ReSplitFrom(_, _, _)
ReSplitFrom(s, k, d) ==
    LET n == RunLen(s, k, d)
        text == SubSeq(s, k, k + n - 1)
    IN  IF d THEN <<text>> \o ReSplitFrom(s, k + n, FALSE)
        ELSE IF k + n > Len(s) THEN <<text>>
        ELSE <<text>> \o ReSplitFrom(s, k + n, TRUE)

re_split_digits(s) == ReSplitFrom(s, 1, FALSE)

\* An element of a key: an int (num, n) or a str (~num, s); Raised stands
\* where computing the element raised ValueError.
KeyInt(n) == [num |-> TRUE, n |-> n, s |-> <<>>]
KeyStr(s) == [num |-> FALSE, n |-> 0, s |-> s]
Raised == [num |-> TRUE, n |-> -1, s |-> <<"ValueError">>]

\* line 17: int(text) if text.isdigit() else text.lower()
KeyElem(text) ==
    IF isdigit(text)
    THEN (IF int_raises(text) THEN Raised ELSE KeyInt(int(text)))
    ELSE KeyStr(lower(text))

natural_sort_key(s) ==
    LET parts == re_split_digits(s)
    IN  [k \in DOMAIN parts |-> KeyElem(parts[k])]

\* Python str comparison: by code point, a proper prefix is smaller.
RECURSIVE StrCmp(_, _)
StrCmp(a, b) ==
    IF a = <<>> /\ b = <<>> THEN "eq"
    ELSE IF a = <<>> THEN "lt"
    ELSE IF b = <<>> THEN "gt"
    ELSE IF Head(a) = Head(b) THEN StrCmp(Tail(a), Tail(b))
    ELSE IF Ord[Head(a)] < Ord[Head(b)] THEN "lt"
    ELSE "gt"

\* Comparison of two key elements; int against str raises TypeError.
ElemCmp(a, b) ==
    IF a.num # b.num THEN "err"
    ELSE IF a.num
         THEN (IF a.n < b.n THEN "lt" ELSE IF a.n > b.n THEN "gt" ELSE "eq")
         ELSE StrCmp(a.s, b.s)

\* Python list comparison: the first differing pair decides, a proper
\* prefix is smaller.
RECURSIVE KeyCmp(_, _)
KeyCmp(x, y) ==
    IF x = <<>> /\ y = <<>> THEN "eq"
    ELSE IF x = <<>> THEN "lt"
    ELSE IF y = <<>> THEN "gt"
    ELSE IF Head(x) = Head(y) THEN KeyCmp(Tail(x), Tail(y))
    ELSE ElemCmp(Head(x), Head(y))

\* A keyed element <<key, x>> is placed before the first one whose key is
\* greater: equal keys keep their input order (list.sort is stable).
RECURSIVE InsertByKey(_, _)
InsertByKey(kx, sorted) ==
    IF sorted = <<>> THEN <<kx>>
    ELSE IF KeyCmp(kx[1], Head(sorted)[1]) = "lt"
         THEN <<kx>> \o sorted
         ELSE <<Head(sorted)>> \o InsertByKey(kx, Tail(sorted))

RECURSIVE SortFrom(_, _)
SortFrom(keyed, sorted) ==
    IF keyed = <<>> THEN sorted
    ELSE SortFrom(Tail(keyed), InsertByKey(Head(keyed), sorted))

\* s.sort(key=natural_sort_key): the key of every element is computed once
sort_natural(s) ==
    LET keyed == [k \in DOMAIN s |-> <<natural_sort_key(s[k]), s[k]>>]
        sorted == SortFrom(keyed, <<>>)
    IN  [k \in DOMAIN sorted |-> sorted[k][2]]

\* The sort raises: the key of some element cannot be computed (ValueError)
\* or two keys cannot be compared (TypeError).
SortRaises(s) ==
    LET keys == {natural_sort_key(x) : x \in Range(s)}
    IN  \/ \E a \in keys : Raised \in Range(a)
        \/ \E a \in keys, b \in keys : KeyCmp(a, b) = "err"

-----------------------------------------------------------------------------
(* The file system the run reads *)

Str_d == <<"d">>
Str_f1 == <<"f", "1">>
Str_f2 == <<"f", "2">>
Str_f10 == <<"f", "1", "0">>
Str_F1 == <<"F", "1">>
Str_a == <<"a">>
Str_b == <<"b">>
Str_c == <<"c">>
Str_3 == <<"3">>
Str_circled == <<"v", "2", CircledOne>>
Str_z_jpg == <<"z", ".", "j", "p", "g">>
Str_2_jpg == <<"2", ".", "j", "p", "g">>
Str_10_jpg == <<"1", "0", ".", "j", "p", "g">>
Str_1_png == <<"1", ".", "p", "n", "g">>
Str_n_txt == <<"n", ".", "t", "x", "t">>
Str_x_Jpg == <<"x", ".", "J", "p", "g">>
Str_1_jpg == <<"1", ".", "j", "p", "g">>
Str_p_JPG == <<"p", ".", "J", "P", "G">>
Str_q_webp == <<"q", ".", "w", "e", "b", "p">>

\* The folders that may exist below the download directory, and the one
\* plain file that may lie beside them.
FolderNames ==
    {Str_f1, Str_f2, Str_f10, Str_F1, Str_a, Str_b, Str_c, Str_3, Str_circled}
EntryNames == FolderNames \cup {Str_z_jpg}

\* The files of each folder.
FolderFiles(folder) ==
    CASE folder = Str_f1 -> {Str_2_jpg, Str_10_jpg}
      [] folder = Str_f2 -> {Str_1_png}
      [] folder = Str_f10 -> {Str_q_webp}
      [] folder = Str_F1 -> {Str_1_jpg}
      [] folder = Str_a -> {Str_x_Jpg, Str_n_txt}
      [] folder = Str_b -> {Str_p_JPG}
      [] folder = Str_c -> {}
      [] folder = Str_3 -> {Str_1_jpg}
      [] folder = Str_circled -> {Str_2_jpg}
      [] OTHER -> {}

\* os.path.exists(path) of the download directory
exists(path) == path = Str_d

\* os.path.isdir(os.path.join(download_dir, f))
isdir(f) == f \in FolderNames

\* The orders in which the files of every folder of D can be enumerated: the
\* functions taking each folder to one enumeration of its files.
RECURSIVE GlobOrders(_)
GlobOrders(D) ==
    IF D = {} THEN {<<>>}
    ELSE LET f == CHOOSE x \in D : TRUE
         IN  {(f :> e) @@ g : e \in Enumerations(FolderFiles(f)),
                              g \in GlobOrders(D \ {f})}

-----------------------------------------------------------------------------
(* get_all_image_files_sorted *)

supported_formats ==
    << <<"*", ".", "j", "p", "g">>, <<"*", ".", "j", "p", "e", "g">>,
       <<"*", ".", "p", "n", "g">>, <<"*", ".", "b", "m", "p">>,
       <<"*", ".", "t", "i", "f", "f">>, <<"*", ".", "t", "i", "f">>,
       <<"*", ".", "w", "e", "b", "p">> >>

\* fnmatch of a name against a pattern '*<suffix>' as glob applies it on a
\* case-sensitive file system: the suffix is matched literally and a name
\* with a leading dot is not matched by a leading '*'.
fnmatch(name, pattern) ==
    /\ name # <<>>
    /\ Head(name) # "."
    /\ EndsWith(name, Tail(pattern))

\* glob.glob(os.path.join(folder_path, pattern)), the folder's files being
\* enumerated in the order `files`
glob(folder_path, pattern, files) ==
    LET Matches(name) == fnmatch(name, pattern)
        hits == SelectSeq(files, Matches)
    IN  [k \in DOMAIN hits |-> join(folder_path, hits[k])]

\* lines 45-48: both spellings of every supported format
folder_images_of(folder_path, files) ==
    Flatten([k \in DOMAIN supported_formats |->
        glob(folder_path, supported_formats[k], files)
        \o glob(folder_path, upper(supported_formats[k]), files)])

\* line 35: [aid.strip() for aid in album_ids.split(',')]
album_ids_list_of(ids) ==
    LET pieces == SplitComma(ids, <<>>)
    IN  [k \in DOMAIN pieces |-> strip(pieces[k])]

\* line 36: f in album_ids_list
InAlbumIds(f, ids) == f \in Range(album_ids_list_of(ids))

\* lines 29-39: the sub-folders processed, in processing order
subfolders_of(listing, ids) ==
    LET dirs == SelectSeq(listing, isdir)
        sorted == sort_natural(dirs)
        Kept(f) == InAlbumIds(f, ids)
    IN  IF ids # <<>> THEN SelectSeq(sorted, Kept) ELSE sorted

\* lines 42-55: the images contributed by one folder
folder_contribution(dir, folder, files) ==
    sort_natural(folder_images_of(join(dir, folder), files))

\* lines 20-59
get_all_image_files_sorted(dir, ids, listing, order) ==
    LET kept == subfolders_of(listing, ids)
    IN  Flatten([k \in DOMAIN kept |->
            folder_contribution(dir, kept[k], order[kept[k]])])

\* A sort of the discovery raises
discovery_raises(dir, ids, listing, order) ==
    \/ SortRaises(SelectSeq(listing, isdir))
    \/ \E f \in Range(subfolders_of(listing, ids)) :
          SortRaises(folder_images_of(join(dir, f), order[f]))

-----------------------------------------------------------------------------
(* main: environment, output path *)

Cwd == <<"/", "w">>

Str_pdf == <<".", "p", "d", "f">>

Str_combined_images ==
    <<"c", "o", "m", "b", "i", "n", "e", "d", "_", "i", "m", "a", "g", "e", "s">>

Str_path_to_pdf_eq ==
    <<"p", "a", "t", "h", "_", "t", "o", "_", "p", "d", "f", "=">>

\* line 123
unsafe_chars == {"/", "\\", ":", "*", "?", "\"", "<", ">", "|"}

MaxFilenameLen == 100

\* lines 118-131
sanitize_filename(filename) ==
    LET replaced == [k \in DOMAIN filename |->
                        IF filename[k] \in unsafe_chars THEN "_" ELSE filename[k]]
        stripped == strip(replaced)
    IN  IF Len(stripped) > MaxFilenameLen
        THEN SubSeq(stripped, 1, MaxFilenameLen) ELSE stripped

\* lines 173-178
pdf_name_of(ids) ==
    IF ids # <<>> THEN sanitize_filename(ids) \o Str_pdf
    ELSE Str_combined_images \o Str_pdf

\* os.path.abspath of a path: a relative path is taken from the working
\* directory
abspath(path) == IF path # <<>> /\ Head(path) = "/" THEN path ELSE join(Cwd, path)

\* The values JM_ALBUM_IDS takes.
AlbumIdsValues ==
    { <<>>,
      <<"b", ",", "d">>,
      <<" ", "f", "1", "0", " ", ",", " ", "f", "2", ",", "F", "1">>,
      <<"c", ",", "a", ",", "B">> }

DownloadDirValues == {<<>>, <<"x">>, Str_d}

EnvFileValues == {<<>>, <<"e">>}

\* The file at the output path: none, or a file with its pages; `whole`
\* tells a completely written PDF from a truncated one.
NoFile == [present |-> FALSE, whole |-> FALSE, pages |-> <<>>]
OldFile ==
    [present |-> TRUE, whole |-> TRUE,
     pages |-> <<[path |-> <<"o", "l", "d">>, mode |-> "RGB"]>>]
PdfFile(pages) == [present |-> TRUE, whole |-> TRUE, pages |-> pages]
PartialFile == [present |-> TRUE, whole |-> FALSE, pages |-> <<>>]

Init ==
    /\ download_dir \in DownloadDirValues
    /\ album_ids \in AlbumIdsValues
    /\ rootEntries \in {S \in SUBSET EntryNames : Cardinality(S) <= MaxEntries}
    /\ destBefore \in {NoFile, OldFile}
    /\ dest = destBefore
    /\ pc = "Idle"
    /\ errorKind = ""
    /\ output_pdf_path = <<>>
    /\ subfolders = <<>>
    /\ all_image_files = <<>>
    /\ i = 0
    /\ images = <<>>
    /\ success_count = 0
    /\ skipped = <<>>
    /\ openHandles = {}
    /\ environ_path_to_pdf = <<>>
    /\ envFileText = <<>>
    /\ result = <<>>

\* sys.exit(1), or main() returning None and line 223 exiting
Fail(kind) ==
    /\ pc' = "Failed"
    /\ errorKind' = kind

\* The emptiness tests left out
never_empty(image_files) == FALSE

\* `not image_files`, lines 65 and 191
is_empty(image_files) == image_files = <<>>

\* main, lines 156-186
Start ==
    /\ pc = "Idle"
    /\ IF download_dir = <<>> \/ ~exists(download_dir)
       THEN /\ Fail("RootNotFound")
            /\ UNCHANGED output_pdf_path
       ELSE /\ pc' = "Discovering"
            /\ output_pdf_path' = join(Cwd, pdf_name_of(album_ids))
            /\ UNCHANGED errorKind
    /\ UNCHANGED <<download_dir, album_ids, rootEntries, destBefore, dest,
                   subfolders, all_image_files, i, images, success_count,
                   skipped, openHandles, environ_path_to_pdf, envFileText,
                   result>>

\* main, lines 189-195, calling get_all_image_files_sorted; os.listdir and
\* glob enumerate in an order the file system chooses
Discover ==
    /\ pc = "Discovering"
    /\ \E listing \in Enumerations(rootEntries),
          order \in GlobOrders(rootEntries \cap FolderNames) :
          IF discovery_raises(download_dir, album_ids, listing, order)
          THEN /\ Fail("UncaughtException")
               /\ UNCHANGED <<subfolders, all_image_files>>
          ELSE /\ subfolders' = subfolders_of(listing, album_ids)
               /\ all_image_files' = get_all_image_files_sorted(
                                         download_dir, album_ids, listing, order)
               /\ IF is_empty(all_image_files')
                  THEN Fail("NoImagesFound")
                  ELSE pc' = "Discovered" /\ UNCHANGED errorKind
    /\ UNCHANGED <<download_dir, album_ids, rootEntries, destBefore, dest,
                   output_pdf_path, i, images, success_count, skipped,
                   openHandles, environ_path_to_pdf, envFileText, result>>

\* convert_all_images_to_single_pdf, lines 65-74
BeginConvert ==
    /\ pc = "Discovered"
    /\ IF is_empty(all_image_files)
       THEN Fail("NoImagesFound")
       ELSE pc' = "Aggregating" /\ UNCHANGED errorKind
    /\ images' = <<>>
    /\ success_count' = 0
    /\ i' = 0
    /\ UNCHANGED <<download_dir, album_ids, rootEntries, destBefore, dest,
                   output_pdf_path, subfolders, all_image_files, skipped,
                   openHandles, environ_path_to_pdf, envFileText, result>>

\* The modes Image.open may report.
Modes == {"RGB", "RGBA"}

\* lines 80-81: the page kept for an opened image
normalized(img) == [path |-> img.path, mode |-> "RGB"]

\* lines 76-86, the entry opens (and converts where its mode is not RGB)
LoadImage ==
    /\ pc = "Aggregating"
    /\ i < Len(all_image_files)
    /\ \E mode \in Modes :
          LET img_path == all_image_files[i + 1]
              img == [path |-> img_path, mode |-> mode]
              page == IF img.mode # "RGB" THEN normalized(img) ELSE img
          IN  /\ images' = Append(images, page)
              /\ openHandles' = openHandles \cup {img_path}
    /\ success_count' = success_count + 1
    /\ i' = i + 1
    /\ UNCHANGED <<download_dir, album_ids, rootEntries, destBefore, dest, pc,
                   errorKind, output_pdf_path, subfolders, all_image_files,
                   skipped, environ_path_to_pdf, envFileText, result>>

\* Image.open raising without the inner try: the run would end at once
LoadOpenErrorAborts ==
    /\ pc = "Aggregating"
    /\ i < Len(all_image_files)
    /\ Fail("DecodeError")
    /\ UNCHANGED <<download_dir, album_ids, rootEntries, destBefore, dest,
                   output_pdf_path, subfolders, all_image_files, i, images,
                   success_count, skipped, openHandles, environ_path_to_pdf,
                   envFileText, result>>

\* lines 78, 88-90: Image.open raises and the entry is passed over
LoadOpenError ==
    /\ pc = "Aggregating"
    /\ i < Len(all_image_files)
    /\ skipped' = Append(skipped, all_image_files[i + 1])
    /\ i' = i + 1
    /\ UNCHANGED <<download_dir, album_ids, rootEntries, destBefore, dest, pc,
                   errorKind, output_pdf_path, subfolders, all_image_files,
                   images, success_count, openHandles, environ_path_to_pdf,
                   envFileText, result>>

\* lines 78-81, 88-90: the image opens, is not RGB, and convert raises
LoadConvertError ==
    /\ pc = "Aggregating"
    /\ i < Len(all_image_files)
    /\ skipped' = Append(skipped, all_image_files[i + 1])
    /\ openHandles' = openHandles \cup {all_image_files[i + 1]}
    /\ i' = i + 1
    /\ UNCHANGED <<download_dir, album_ids, rootEntries, destBefore, dest, pc,
                   errorKind, output_pdf_path, subfolders, all_image_files,
                   images, success_count, environ_path_to_pdf, envFileText,
                   result>>

\* main publishing the path without looking at the result of the conversion
NoValidImagesPublished ==
    /\ pc = "Aggregating"
    /\ i = Len(all_image_files)
    /\ images = <<>>
    /\ Fail("NoPagesDecoded")
    /\ environ_path_to_pdf' = abspath(output_pdf_path)
    /\ UNCHANGED <<download_dir, album_ids, rootEntries, destBefore, dest,
                   output_pdf_path, subfolders, all_image_files, i, images,
                   success_count, skipped, openHandles, envFileText, result>>

\* lines 92-94, then main lines 212-214
NoValidImages ==
    /\ pc = "Aggregating"
    /\ i = Len(all_image_files)
    /\ images = <<>>
    /\ Fail("NoPagesDecoded")
    /\ UNCHANGED <<download_dir, album_ids, rootEntries, destBefore, dest,
                   output_pdf_path, subfolders, all_image_files, i, images,
                   success_count, skipped, openHandles, environ_path_to_pdf,
                   envFileText, result>>

\* line 98
first_image(imgs) == imgs[1]

\* append_images given the whole list: the first page would be written twice
append_images_all(imgs) == imgs

\* line 104
append_images(imgs) == Tail(imgs)

\* lines 99-106: the pages Image.save writes
saved_pages(imgs) == <<first_image(imgs)>> \o append_images(imgs)

\* lines 96-112: the save succeeds
SaveOk ==
    /\ pc = "Aggregating"
    /\ i = Len(all_image_files)
    /\ images # <<>>
    /\ dest' = PdfFile(saved_pages(images))
    /\ pc' = "Saved"
    /\ UNCHANGED <<download_dir, album_ids, rootEntries, destBefore,
                   errorKind, output_pdf_path, subfolders, all_image_files, i,
                   images, success_count, skipped, openHandles,
                   environ_path_to_pdf, envFileText, result>>

\* What a save that raises leaves at the output path it writes to: the file
\* as it was when the path could not be opened, a truncated file otherwise.
after_failed_save(before) == {before, PartialFile}

\* lines 99-106, 114-116: the save raises
SaveFail ==
    /\ pc = "Aggregating"
    /\ i = Len(all_image_files)
    /\ images # <<>>
    /\ dest' \in after_failed_save(dest)
    /\ Fail("WriteError")
    /\ UNCHANGED <<download_dir, album_ids, rootEntries, destBefore,
                   output_pdf_path, subfolders, all_image_files, i, images,
                   success_count, skipped, openHandles, environ_path_to_pdf,
                   envFileText, result>>

\* main lines 198-211 with write_path_to_env, lines 133-152; JM_ENV_FILE is
\* read at line 158 and used here alone, so its value is drawn here
Publish ==
    /\ pc = "Saved"
    /\ environ_path_to_pdf' = abspath(output_pdf_path)
    /\ \E env_file \in EnvFileValues, written \in BOOLEAN :
          envFileText' = IF env_file # <<>> /\ written
                         THEN Str_path_to_pdf_eq \o abspath(output_pdf_path)
                         ELSE envFileText
    /\ result' = abspath(output_pdf_path)
    /\ pc' = "Succeeded"
    /\ UNCHANGED <<download_dir, album_ids, rootEntries, destBefore, dest,
                   errorKind, output_pdf_path, subfolders, all_image_files, i,
                   images, success_count, skipped, openHandles>>

Next ==
    \/ Start
    \/ Discover
    \/ BeginConvert
    \/ LoadImage
    \/ LoadOpenError
    \/ LoadConvertError
    \/ NoValidImages
    \/ SaveOk
    \/ SaveFail
    \/ Publish

Spec == Init /\ [][Next]_vars

-----------------------------------------------------------------------------
(* Vocabulary of the properties *)

\* The path of the file `name` of folder f, as glob returns it.
PathOf(f, name) == join(join(download_dir, f), name)

IsPrefix(pre, s) == Len(pre) <= Len(s) /\ SubSeq(s, 1, Len(pre)) = pre

\* The position in `subfolders` of the folder a discovered path lies in, and
\* the file name of the path.
FolderIndex(path) ==
    CHOOSE k \in DOMAIN subfolders :
        IsPrefix(join(join(download_dir, subfolders[k]), <<>>), path)

FileNameOf(path) ==
    SubSeq(path, Len(PathOf(subfolders[FolderIndex(path)], <<>>)) + 1, Len(path))

PositionIn(x, seq) == CHOOSE k \in DOMAIN seq : seq[k] = x

\* Natural order: digit runs by value, other text without regard to case.
NaturalLe(a, b) ==
    KeyCmp(natural_sort_key(a), natural_sort_key(b)) \in {"lt", "eq"}

\* The text after the last dot of a file name (none: the empty string).
RECURSIVE Extension(_)
Extension(name) ==
    IF name = <<>> THEN <<>>
    ELSE IF name[Len(name)] = "." THEN <<>>
    ELSE IF "." \notin Range(name) THEN <<>>
    ELSE Append(Extension(SubSeq(name, 1, Len(name) - 1)), name[Len(name)])

ImageExtensions ==
    { <<"j", "p", "g">>, <<"j", "p", "e", "g">>, <<"p", "n", "g">>,
      <<"b", "m", "p">>, <<"t", "i", "f", "f">>, <<"t", "i", "f">>,
      <<"w", "e", "b", "p">> }

\* get_all_image_files_sorted was called.
DiscoveryAttempted ==
    /\ pc \notin {"Idle", "Discovering"}
    /\ errorKind # "RootNotFound"

\* get_all_image_files_sorted was called and returned its list.
DiscoveryReturned == DiscoveryAttempted /\ errorKind # "UncaughtException"

PathsOf(pages) == [k \in DOMAIN pages |-> pages[k].path]

\* The artifact was written by this run.
ArtifactWritten == pc \in {"Saved", "Succeeded"}

\* The state of the run: Idle, Discovering, Aggregating, ended.
Rank ==
    CASE pc = "Idle" -> 0
      [] pc \in {"Discovering", "Discovered"} -> 1
      [] pc \in {"Aggregating", "Saved"} -> 2
      [] pc \in {"Succeeded", "Failed"} -> 3

\* How far main() has got.
Position ==
    CASE pc = "Idle" -> 0
      [] pc = "Discovering" -> 1
      [] pc = "Discovered" -> 2
      [] pc = "Aggregating" -> 3
      [] pc = "Saved" -> 4
      [] pc \in {"Succeeded", "Failed"} -> 5

\* Some step of the run is possible. Discover asks only for an enumeration
\* of the directory and of its folders; the other actions are asked directly.
CanStep ==
    IF pc = "Discovering"
    THEN /\ Enumerations(rootEntries) # {}
         /\ GlobOrders(rootEntries \cap FolderNames) # {}
    ELSE ENABLED Next

-----------------------------------------------------------------------------
(* Properties *)

\* C1: when the artifact is written, its pages are exactly the entries that
\* were not passed over with a load error, each once and in the order of the
\* input list, the first of them first; their number is success_count and is
\* the number of entries less the number passed over.
C1_PagesAreTheDecodedEntries ==
    ArtifactWritten =>
        LET Decoded(path) == path \notin Range(skipped)
        IN  /\ dest.whole
            /\ PathsOf(dest.pages) = SelectSeq(all_image_files, Decoded)
            /\ PathsOf(dest.pages) = PathsOf(images)
            /\ Len(dest.pages) = success_count
            /\ Len(dest.pages) = Len(all_image_files) - Len(skipped)

C1_Witness ==
    /\ pc = "Succeeded"
    /\ Len(dest.pages) >= 2
    /\ all_image_files[1] \in Range(skipped)
    /\ Len(skipped) >= 2

\* C2: a load error of one entry leaves the run in the loop with the next
\* entry to attempt; the run fails with NoPagesDecoded only after every entry
\* was attempted and passed over, and then the output path is as it was; with
\* at least one image loaded the next step is the save.
C2_EntryErrorsNeverAbort ==
    /\ [][(pc = "Aggregating" /\ i < Len(all_image_files))
            => (pc' = "Aggregating" /\ i' = i + 1
                /\ Len(images') + Len(skipped') = i')]_vars
    /\ [][(pc = "Aggregating" /\ i = Len(all_image_files) /\ images # <<>>)
            => (pc' = "Saved" \/ errorKind' = "WriteError")]_vars
    /\ [](errorKind = "NoPagesDecoded"
            => /\ i = Len(all_image_files)
               /\ skipped = all_image_files
               /\ images = <<>>
               /\ dest = destBefore)
    /\ [](errorKind \in {"", "RootNotFound", "UncaughtException", "NoImagesFound",
                         "NoPagesDecoded", "WriteError"})

C2_Witness ==
    /\ pc = "Saved"
    /\ Len(all_image_files) >= 3
    /\ all_image_files[1] \in Range(skipped)
    /\ all_image_files[2] \in Range(skipped)
    /\ PathsOf(images) = <<all_image_files[Len(all_image_files)]>>

\* C3: a run that failed leaves the output path as it was before the run.
C3_AtomicPublish == pc = "Failed" => dest = destBefore

\* C4: when the run has ended, no image file it opened is still open.
C4_HandlesReleased == pc \in {"Succeeded", "Failed"} => openHandles = {}

\* C5: the discovered sequence is the same whatever order os.listdir and
\* glob enumerate the names in.
C5_OrderIsFunctionOfNames ==
    pc = "Discovered" =>
        \A listing \in Enumerations(rootEntries),
           order \in GlobOrders(rootEntries \cap FolderNames) :
            get_all_image_files_sorted(download_dir, album_ids, listing, order)
                = all_image_files

\* The folders are processed in natural order (f1, f2, f10; 3 before a),
\* the images of an earlier folder come before those of a later one, and the
\* images of one folder are in natural order (2 before 10).
NaturalOrder ==
    /\ \A p, q \in DOMAIN subfolders :
          p < q => NaturalLe(subfolders[p], subfolders[q])
    /\ {Str_f1, Str_f2, Str_f10} \subseteq Range(subfolders) =>
          /\ PositionIn(Str_f1, subfolders) < PositionIn(Str_f2, subfolders)
          /\ PositionIn(Str_f2, subfolders) < PositionIn(Str_f10, subfolders)
    /\ \A p, q \in DOMAIN all_image_files :
          p < q =>
            LET a == all_image_files[p]
                b == all_image_files[q]
            IN  /\ FolderIndex(a) <= FolderIndex(b)
                /\ FolderIndex(a) = FolderIndex(b)
                      => NaturalLe(FileNameOf(a), FileNameOf(b))
    /\ Str_f1 \in Range(subfolders) =>
          PositionIn(PathOf(Str_f1, Str_2_jpg), all_image_files)
            < PositionIn(PathOf(Str_f1, Str_10_jpg), all_image_files)

\* C6: the sort never fails, whatever the names; the folders and the images
\* are in natural order.
C6_NaturalOrder ==
    /\ errorKind # "UncaughtException"
    /\ pc = "Discovered" => NaturalOrder

\* C6 without its first part: when the sorts did not raise, the order is the
\* natural one.
C6_NaturalOrderWhenSorted == pc = "Discovered" => NaturalOrder

C6_Witness ==
    /\ pc = "Discovered"
    /\ subfolders = <<Str_f1, Str_f2, Str_f10>>
    /\ Len(all_image_files) = 4

\* The folders processed are the existing folders whose name is, letter for
\* letter, an entry of the list, each once and in natural order whatever the
\* order of the list; a listed name without a folder changes nothing
\* (folders a, b, c and the list "b,d": b alone).
AllowListIntersection ==
    /\ Range(subfolders)
          = {f \in rootEntries :
                isdir(f) /\ f \in Range(album_ids_list_of(album_ids))}
    /\ Cardinality(Range(subfolders)) = Len(subfolders)
    /\ \A p, q \in DOMAIN subfolders :
          p < q => NaturalLe(subfolders[p], subfolders[q])
    /\ (album_ids = <<"b", ",", "d">> /\ Str_b \in rootEntries) =>
          /\ subfolders = <<Str_b>>
          /\ all_image_files = <<PathOf(Str_b, Str_p_JPG)>>
          /\ errorKind # "NoImagesFound"

\* C7: in every run with an allow-list, the folders processed are those the
\* list names.
C7_AllowListIntersection ==
    (DiscoveryAttempted /\ album_ids # <<>>) => AllowListIntersection

\* C7 for the runs whose sort did not raise.
C7_AllowListWhenSorted ==
    (DiscoveryReturned /\ album_ids # <<>>) => AllowListIntersection

C7_Witness ==
    /\ pc = "Discovered"
    /\ album_ids = <<"b", ",", "d">>
    /\ rootEntries = {Str_a, Str_b, Str_c}
    /\ subfolders = <<Str_b>>

\* C7, second case: the order of the list does not decide the order of the
\* folders.
C7_ListOrderWitness ==
    /\ pc = "Discovered"
    /\ album_ids = <<" ", "f", "1", "0", " ", ",", " ", "f", "2", ",", "F", "1">>
    /\ subfolders = <<Str_F1, Str_f2, Str_f10>>

C8_SkippedFolderWitness ==
    /\ pc = "Succeeded"
    /\ Str_c \in Range(subfolders)
    /\ Str_b \in Range(subfolders)

\* C9: a file of a processed folder is in the discovered sequence exactly
\* when its extension, case folded, is one of the image extensions, and then
\* once.
C9_ExtensionFilter ==
    pc = "Discovered" =>
        \A k \in DOMAIN subfolders :
            \A name \in FolderFiles(subfolders[k]) :
                LET path == PathOf(subfolders[k], name)
                    Is(x) == x = path
                IN  IF lower(Extension(name)) \in ImageExtensions
                    THEN Len(SelectSeq(all_image_files, Is)) = 1
                    ELSE Len(SelectSeq(all_image_files, Is)) = 0

\* C10: the run only moves forward through Idle, Discovering, Aggregating to
\* Succeeded or Failed, where it stops, and stops nowhere else; every step
\* advances it; nothing is loaded before discovery has returned the list,
\* which does not change afterwards; the path is published (return value,
\* path_to_pdf, env file) only in a run that succeeded, and then it is the
\* absolute output path of a completely written artifact.
C10_RunStateMachine ==
    /\ [][Rank' >= Rank]_vars
    /\ [][Position' > Position \/ (Position' = Position /\ i' > i)]_vars
    /\ [][pc \notin {"Idle", "Discovering"}
            => all_image_files' = all_image_files]_vars
    /\ [](pc \in {"Succeeded", "Failed"} <=> ~CanStep)
    /\ [](pc = "Failed" <=> errorKind # "")
    /\ []((i > 0 \/ images # <<>> \/ skipped # <<>> \/ openHandles # {})
            => pc \in {"Aggregating", "Saved", "Succeeded", "Failed"})
    /\ []((result # <<>> \/ environ_path_to_pdf # <<>> \/ envFileText # <<>>)
            => pc = "Succeeded")
    /\ [](pc = "Succeeded"
            => /\ result = abspath(output_pdf_path)
               /\ environ_path_to_pdf = result
               /\ Head(result) = "/"
               /\ dest.whole /\ dest.pages # <<>>)

C10_Witness ==
    /\ pc = "Succeeded"
    /\ envFileText = Str_path_to_pdf_eq \o result
    /\ environ_path_to_pdf = result
    /\ album_ids # <<>>

====
